---------------------------- MODULE Spec2Model ----------------------------
(***************************************************************************)
(* Model of ContactsControl (src/ContactsControl/index.ts): a PCF control  *)
(* that renders a searchable, sortable, paginated table over the host's    *)
(* dataset.                                                                *)
(*                                                                         *)
(* Strings are sequences of one-character strings, so that trim,           *)
(* toLowerCase, includes and localeCompare are computed, not assumed.      *)
(* A value that getFormattedValue does not have (null / undefined) is the  *)
(* token Null.                                                             *)
(***************************************************************************)
EXTENDS Integers, Sequences, FiniteSets

(***************************************************************************)
(* Bounds of the model.                                                    *)
(***************************************************************************)
\* largest number of rows of a generated dataset
MaxRows == 30
\* largest value of currentPage a behaviour of SpecView starts from
MaxPage == 5

(***************************************************************************)
(* Program constants.                                                      *)
(***************************************************************************)
\* private recordsPerPage: number = 13
recordsPerPage == 13

(***************************************************************************)
(* Strings.                                                                *)
(***************************************************************************)
Null == <<"null">>

\* v || ""  (null, undefined and "" are all falsy)
OrEmpty(v) == IF v = Null THEN <<>> ELSE v

IsSpace(c) == c = " "

\* String.prototype.toLowerCase, one character
LowerChar(c) ==
  CASE c = "A" -> "a"
    [] c = "B" -> "b"
    [] OTHER -> c

\* String.prototype.toLowerCase
ToLowerCase(s) == [i \in 1..Len(s) |-> LowerChar(s[i])]

RECURSIVE TrimStart(_)
TrimStart(s) ==
  IF s # <<>> /\ IsSpace(Head(s)) THEN TrimStart(Tail(s)) ELSE s

RECURSIVE TrimEnd(_)
TrimEnd(s) ==
  IF s # <<>> /\ IsSpace(s[Len(s)]) THEN TrimEnd(SubSeq(s, 1, Len(s) - 1)) ELSE s

\* String.prototype.trim
Trim(s) == TrimEnd(TrimStart(s))

\* String.prototype.includes: q occurs in s as a contiguous substring
Includes(s, q) ==
  \E i \in 0..(Len(s) - Len(q)) :
    \A j \in 1..Len(q) : s[i + j] = q[j]

(***************************************************************************)
(* String.prototype.localeCompare under the default (root / en) collation: *)
(* the strings are compared on their primary weights first (white space <  *)
(* punctuation < letters, letters without regard to case, a prefix before  *)
(* a longer string) and, when those are equal, on case, lower case first.  *)
(***************************************************************************)
PrimaryWeight(c) ==
  CASE c = " " -> 1
    [] c = "." -> 2
    [] c = "(" -> 3
    [] c \in {"a", "A"} -> 4
    [] c \in {"b", "B"} -> 5
    [] OTHER -> 6

TertiaryWeight(c) == IF c \in {"A", "B"} THEN 1 ELSE 0

RECURSIVE LexCompare(_, _)
LexCompare(x, y) ==
  IF x = <<>> /\ y = <<>> THEN 0
  ELSE IF x = <<>> THEN -1
  ELSE IF y = <<>> THEN 1
  ELSE IF Head(x) < Head(y) THEN -1
  ELSE IF Head(x) > Head(y) THEN 1
  ELSE LexCompare(Tail(x), Tail(y))

LocaleCompare(x, y) ==
  LET p == LexCompare([i \in 1..Len(x) |-> PrimaryWeight(x[i])],
                      [i \in 1..Len(y) |-> PrimaryWeight(y[i])])
  IN  IF p # 0 THEN p
      ELSE LexCompare([i \in 1..Len(x) |-> TertiaryWeight(x[i])],
                      [i \in 1..Len(y) |-> TertiaryWeight(y[i])])

(***************************************************************************)
(* The host's dataset (context.parameters.sampleDataSet).  A dataset is    *)
(* named by its kind and its number of rows; its columns, its row order    *)
(* (sortedRecordIds) and its cell values are computed from the name.       *)
(*   "small"  : five hand-written rows, columns fullname and email         *)
(*   "nofull" : the same rows in a view that has no fullname column        *)
(*   "big"    : n generated rows, columns fullname and email; every        *)
(*              fullname is different, the e-mails repeat                  *)
(***************************************************************************)
NoContext == [kind |-> "none", n |-> 0]

RowCounts == {n \in 0..MaxRows : n % recordsPerPage \in {0, 1}} \cup {MaxRows}

Datasets ==
  {[kind |-> "small", n |-> 5], [kind |-> "nofull", n |-> 5]}
    \cup {[kind |-> "big", n |-> n] : n \in RowCounts}

\* the datasets the host may hand to init
InitDatasets ==
  {[kind |-> "big", n |-> 0], [kind |-> "small", n |-> 5],
   [kind |-> "big", n |-> 14]}

ColumnNames == {"fullname", "email"}

\* dataset.columns, in order (column.name)
Columns(ds) ==
  CASE ds.kind = "nofull" -> <<"email">>
    [] ds.kind = "none" -> <<>>
    [] OTHER -> <<"fullname", "email">>

\* dataset.sortedRecordIds: the host's row order
SortedRecordIds(ds) ==
  CASE ds.kind \in {"small", "nofull"} -> <<3, 1, 5, 2, 4>>
    [] OTHER -> [i \in 1..ds.n |-> ds.n + 1 - i]

SmallFullname ==
  << <<"A", "b">>, <<"a", "b">>, Null, <<"a", "(", "b">>, <<>> >>

SmallEmail ==
  << <<"b", " ", "a">>, <<"a", ".", "b">>, Null, <<"B", " ", "A">>,
     <<"A", "b">> >>

NameDigit(d) == CASE d = 0 -> "a" [] d = 1 -> "b" [] OTHER -> "A"

\* fullname of generated row r: r written with four digits in base 3
BigFullname(r) ==
  << NameDigit((r \div 27) % 3), NameDigit((r \div 9) % 3),
     NameDigit((r \div 3) % 3), NameDigit(r % 3) >>

BigEmail(r) ==
  CASE r % 4 = 0 -> Null
    [] r % 4 = 1 -> <<"b", " ", "a">>
    [] r % 4 = 2 -> <<>>
    [] OTHER -> <<"B">>

\* dataset.records[r].getFormattedValue(col)
GetFormattedValue(ds, r, col) ==
  CASE ds.kind = "small" /\ col = "fullname" -> SmallFullname[r]
    [] ds.kind \in {"small", "nofull"} /\ col = "email" -> SmallEmail[r]
    [] ds.kind = "big" /\ col = "fullname" -> BigFullname(r)
    [] ds.kind = "big" /\ col = "email" -> BigEmail(r)
    [] OTHER -> Null

\* what the user can put into the search input
Texts ==
  { <<>>, <<" ", " ">>, <<" ", "A">>, <<"b", " ", "A", " ">>, <<"(">>,
    <<"(", "(">>, <<".">> }

(***************************************************************************)
(* renderTable, the computation (lines 65 to 110).                         *)
(***************************************************************************)
Min(a, b) == IF a < b THEN a ELSE b
Max(a, b) == IF a > b THEN a ELSE b

\* const searchQuery = this.searchInput.value.trim().toLowerCase()
SearchQuery(text) == ToLowerCase(Trim(text))

\* a bug: the direction ignored
SortCompare_IgnoresDirection(ds, col, asc, a, b) ==
  LocaleCompare(OrEmpty(GetFormattedValue(ds, a, col)),
                OrEmpty(GetFormattedValue(ds, b, col)))

\* the comparator handed to sortedRecords.sort
SortCompare(ds, col, asc, a, b) ==
  LET recordA == OrEmpty(GetFormattedValue(ds, a, col))
      recordB == OrEmpty(GetFormattedValue(ds, b, col))
  IN  IF asc THEN LocaleCompare(recordA, recordB)
             ELSE LocaleCompare(recordB, recordA)

\* a bug: a merge that takes the right element when the two compare equal
RECURSIVE Merge_Unstable(_, _, _, _, _)
Merge_Unstable(ds, col, asc, l, r) ==
  IF l = <<>> THEN r
  ELSE IF r = <<>> THEN l
  ELSE IF SortCompare(ds, col, asc, Head(l), Head(r)) < 0
       THEN <<Head(l)>> \o Merge_Unstable(ds, col, asc, Tail(l), r)
       ELSE <<Head(r)>> \o Merge_Unstable(ds, col, asc, l, Tail(r))

\* Array.prototype.sort is stable (ECMAScript 2019): of two elements that
\* compare equal the one that came first stays first.  Merge sort; Merge
\* takes the left element unless the comparator says it comes after.
RECURSIVE Merge(_, _, _, _, _)
Merge(ds, col, asc, l, r) ==
  IF l = <<>> THEN r
  ELSE IF r = <<>> THEN l
  ELSE IF SortCompare(ds, col, asc, Head(l), Head(r)) <= 0
       THEN <<Head(l)>> \o Merge(ds, col, asc, Tail(l), r)
       ELSE <<Head(r)>> \o Merge(ds, col, asc, l, Tail(r))

\* sortedRecords.sort((a, b) => ...)
RECURSIVE ArraySort(_, _, _, _)
ArraySort(ds, col, asc, s) ==
  IF Len(s) <= 1 THEN s
  ELSE LET h == Len(s) \div 2
       IN  Merge(ds, col, asc, ArraySort(ds, col, asc, SubSeq(s, 1, h)),
                 ArraySort(ds, col, asc, SubSeq(s, h + 1, Len(s))))

\* a bug: the copy never sorted
SortedRecords_NoSort(ds, col, asc) == SortedRecordIds(ds)

\* const sortedRecords = [...sortedRecordIds]; if (this.currentSortColumn) sort
SortedRecords(ds, col, asc) ==
  IF col = "" THEN SortedRecordIds(ds)
  ELSE ArraySort(ds, col, asc, SortedRecordIds(ds))

\* getFormattedValue("fullname")?.toLowerCase() || "" ... includes(searchQuery)
MatchesFullName(ds, r, q) ==
  Includes(ToLowerCase(OrEmpty(GetFormattedValue(ds, r, "fullname"))), q)

\* columns.some(column => getFormattedValue(column.name)?.toLowerCase()
\*                          .includes(searchQuery))
\* an absent value makes the optional chain undefined, which is falsy
MatchesOtherFields(ds, r, q) ==
  \E i \in 1..Len(Columns(ds)) :
    LET v == GetFormattedValue(ds, r, Columns(ds)[i])
    IN  v # Null /\ Includes(ToLowerCase(v), q)

\* a bug: the fullname branch taken away
MatchesFilter_OtherFieldsOnly(ds, r, q) == MatchesOtherFields(ds, r, q)

\* a bug: only the fullname branch
MatchesFilter_FullNameOnly(ds, r, q) == MatchesFullName(ds, r, q)

\* the predicate of sortedRecords.filter
MatchesFilter(ds, r, q) == MatchesFullName(ds, r, q) \/ MatchesOtherFields(ds, r, q)

FilteredRecords(ds, sorted, q) ==
  LET Keep(r) == MatchesFilter(ds, r, q) IN SelectSeq(sorted, Keep)

\* a bug: the page count rounded down
TotalPages_RoundedDown(totalRecords) == totalRecords \div recordsPerPage

\* Math.ceil(totalRecords / this.recordsPerPage)
TotalPages(totalRecords) == (totalRecords + recordsPerPage - 1) \div recordsPerPage

\* a bug: the "|| 1" forgotten
ClampPage_NoFallback(page, totalPages) == Min(page, totalPages)

\* a bug: the page taken as requested
ClampPage_Unclamped(page, totalPages) == page

\* Math.min(this.currentPage, totalPages) || 1   (0 is falsy)
ClampPage(page, totalPages) ==
  LET m == Min(page, totalPages) IN IF m = 0 THEN 1 ELSE m

\* a bug: the pages counted from 0
StartIndex_FromZero(page) == page * recordsPerPage

\* (this.currentPage - 1) * this.recordsPerPage
StartIndex(page) == (page - 1) * recordsPerPage

\* Array.prototype.slice(start, end): a negative index counts from the end,
\* both are cut to the array, and from start >= end the result is empty
ArraySlice(arr, start, end) ==
  LET len  == Len(arr)
      from == IF start < 0 THEN Max(len + start, 0) ELSE Min(start, len)
      to   == IF end < 0 THEN Max(len + end, 0) ELSE Min(end, len)
  IN  IF from >= to THEN <<>> ELSE SubSeq(arr, from + 1, to)

\* filteredRecords.slice(startIndex, startIndex + this.recordsPerPage)
PageSlice(filtered, page) ==
  ArraySlice(filtered, StartIndex(page), StartIndex(page) + recordsPerPage)

(***************************************************************************)
(* What a render throws.                                                   *)
(***************************************************************************)
\* new RegExp(`(${searchQuery})`, "gi") is a SyntaxError when the pattern
\* has a group that is never closed
RegExpThrows(q) == \E i \in 1..Len(q) : q[i] = "("

\* highlightText runs once per cell of the page; it builds the RegExp only
\* for a query that is not empty
HighlightThrows(ds, paginated, q) ==
  paginated # <<>> /\ Columns(ds) # <<>> /\ q # <<>> /\ RegExpThrows(q)

\* pageButton.classList.add(i === this.currentPage ? "active" : ""):
\* DOMTokenList.add("") is a SyntaxError, so the loop over the page buttons
\* throws at the first button that is not the current page
PaginationThrows(totalPages, page) == \E i \in 1..totalPages : i # page

(***************************************************************************)
(* highlightText (lines 179 to 183).  The pattern is the query between     *)
(* parentheses, with the flags g and i: a "." of the query stands for any  *)
(* character, every other character of the alphabet for itself in either   *)
(* case.  A highlighted value is the value with the tokens SpanOpen and    *)
(* SpanClose around each match.                                            *)
(***************************************************************************)
SpanOpen == "<span class=highlight>"
SpanClose == "</span>"

\* what a call that threw has for a result
Thrown == <<"SyntaxError">>

\* the pattern matches at the head of v
RegExpMatchesAt(v, q) ==
  /\ Len(v) >= Len(q)
  /\ \A j \in 1..Len(q) : q[j] = "." \/ LowerChar(v[j]) = LowerChar(q[j])

\* value.replace(regex, `<span class="highlight">$1</span>`): the matches are
\* found from left to right, each search starting where the last match ended
RECURSIVE RegExpReplace(_, _)
RegExpReplace(v, q) ==
  IF v = <<>> THEN <<>>
  ELSE IF RegExpMatchesAt(v, q)
       THEN <<SpanOpen>> \o SubSeq(v, 1, Len(q)) \o <<SpanClose>>
              \o RegExpReplace(SubSeq(v, Len(q) + 1, Len(v)), q)
       ELSE <<Head(v)>> \o RegExpReplace(Tail(v), q)

HighlightText(value, searchQuery) ==
  IF searchQuery = <<>> THEN value
  ELSE IF RegExpThrows(searchQuery) THEN Thrown
  ELSE RegExpReplace(value, searchQuery)

\* the calls of highlightText that a render makes, page row by page row and
\* column by column, up to the first one that throws
HighlightCalls(ds, paginated, q) ==
  LET cols == Columns(ds)
      n    == IF q # <<>> /\ RegExpThrows(q)
                THEN Min(1, Len(paginated) * Len(cols))
                ELSE Len(paginated) * Len(cols)
  IN  [k \in 1..n |->
         LET value == OrEmpty(GetFormattedValue(ds, paginated[((k - 1) \div Len(cols)) + 1],
                                                cols[((k - 1) % Len(cols)) + 1]))
         IN  [value |-> value, html |-> HighlightText(value, q)]]

(***************************************************************************)
(* renderPaginationControls: the page buttons (lines 163 to 173).          *)
(***************************************************************************)
\* the numbers of the page buttons of the pagination div in the container
PageButtons(attached, pages) ==
  IF attached THEN [i \in 1..pages |-> i] ELSE <<>>

\* the page buttons with the class "active"
ActiveButtons(attached, pages, page) ==
  IF attached THEN {i \in 1..pages : i = page} ELSE {}

(***************************************************************************)
(* The dataset's own array of row ids after a render.                      *)
(***************************************************************************)
\* a bug: sortedRecordIds sorted in place, without the copy
RecordIdsAfterRender_SortedInPlace(ds, col, asc) == SortedRecords(ds, col, asc)

\* [...sortedRecordIds] is a copy; the sort works on the copy
RecordIdsAfterRender(ds, col, asc) == SortedRecordIds(ds)

(***************************************************************************)
(* The state of the control.                                               *)
(***************************************************************************)
VARIABLES
  lifecycle,          \* "initialized" after init, "destroyed" after destroy
  initContext,        \* the context init got: the input listener's closure
  hostContext,        \* the context of the last updateView call of the host
  context,            \* the context of the last render: the closure of the
                      \*   header, Previous, Next and page-button listeners
  searchText,         \* this.searchInput.value
  currentSortColumn,  \* this.currentSortColumn, "" while undefined
  isAscending,        \* this.isAscending
  currentPage,        \* this.currentPage
  inputAttached,      \* the search input is a child of the container
  tableAttached,      \* the table is a child of the container
  paginationAttached, \* the pagination div is a child of the container
  prevDisabled,       \* prevButton.disabled
  nextDisabled,       \* nextButton.disabled
  totalPages,         \* totalPages of the last render
  sortedRecords,      \* sortedRecords of the last render
  filteredRecords,    \* filteredRecords of the last render
  paginatedRecords,   \* paginatedRecords of the last render
  threw,              \* the last updateView ended with an exception
  requestedPage,      \* this.currentPage when the last render began
  clampedFrom,        \* the page the last clamping render began with, or 0
  recordIds,          \* sortedRecordIds of the context, as the render left it
  pageButtons,        \* the numbers of the page buttons in the container
  activeButtons,      \* the page buttons that carry the class "active"
  highlightCalls,     \* the calls of highlightText of the last render
  lastAction          \* the operation that ran last

vars ==
  << lifecycle, initContext, hostContext, context, searchText, currentSortColumn,
     isAscending, currentPage, inputAttached, tableAttached,
     paginationAttached, prevDisabled, nextDisabled, totalPages,
     sortedRecords, filteredRecords, paginatedRecords, threw, requestedPage,
     clampedFrom, recordIds, pageButtons, activeButtons, highlightCalls,
     lastAction >>

\* everything but the record of the last operation
controlVars ==
  << lifecycle, initContext, hostContext, context, searchText, currentSortColumn,
     isAscending, currentPage, inputAttached, tableAttached,
     paginationAttached, prevDisabled, nextDisabled, totalPages,
     sortedRecords, filteredRecords, paginatedRecords, threw, requestedPage,
     clampedFrom, recordIds, pageButtons, activeButtons, highlightCalls >>

domVars ==
  << inputAttached, tableAttached, paginationAttached, prevDisabled,
     nextDisabled >>

renderVars ==
  << context, totalPages, sortedRecords, filteredRecords, paginatedRecords,
     threw, requestedPage, clampedFrom, recordIds, pageButtons, activeButtons,
     highlightCalls >>

\* a bug: the page clamped for the slice only, this.currentPage left as it was
RenderTable_ClampNotStored(ctx, page) ==
  /\ context' = ctx
  /\ inputAttached' = FALSE
  /\ requestedPage' = page
  /\ sortedRecords' = SortedRecords(ctx, currentSortColumn', isAscending')
  /\ filteredRecords' = FilteredRecords(ctx, sortedRecords', SearchQuery(searchText'))
  /\ totalPages' = TotalPages(Len(filteredRecords'))
  /\ currentPage' = page
  /\ clampedFrom' = IF ClampPage(page, totalPages') # page THEN page ELSE clampedFrom
  /\ paginatedRecords' = PageSlice(filteredRecords', ClampPage(page, totalPages'))
  /\ tableAttached' = ~HighlightThrows(ctx, paginatedRecords', SearchQuery(searchText'))
  /\ paginationAttached' =
       (tableAttached' /\ ~PaginationThrows(totalPages', ClampPage(page, totalPages')))
  /\ prevDisabled' = (ClampPage(page, totalPages') = 1)
  /\ nextDisabled' = (ClampPage(page, totalPages') = totalPages')
  /\ threw' = ~paginationAttached'
  /\ recordIds' = RecordIdsAfterRender(ctx, currentSortColumn', isAscending')
  /\ highlightCalls' = HighlightCalls(ctx, paginatedRecords', SearchQuery(searchText'))
  /\ pageButtons' = PageButtons(paginationAttached', totalPages')
  /\ activeButtons' = ActiveButtons(paginationAttached', totalPages', ClampPage(page, totalPages'))

\* updateView(ctx) = renderTable(ctx), begun with this.currentPage = page.
\* Each local of renderTable is kept in the variable of its name.
RenderTable(ctx, page) ==
  /\ context' = ctx
  /\ inputAttached' = FALSE
  /\ requestedPage' = page
  /\ sortedRecords' = SortedRecords(ctx, currentSortColumn', isAscending')
  /\ filteredRecords' = FilteredRecords(ctx, sortedRecords', SearchQuery(searchText'))
  /\ totalPages' = TotalPages(Len(filteredRecords'))
  /\ currentPage' = ClampPage(page, totalPages')
  /\ clampedFrom' = IF currentPage' # page THEN page ELSE clampedFrom
  /\ paginatedRecords' = PageSlice(filteredRecords', currentPage')
  /\ tableAttached' = ~HighlightThrows(ctx, paginatedRecords', SearchQuery(searchText'))
  /\ paginationAttached' = (tableAttached' /\ ~PaginationThrows(totalPages', currentPage'))
  /\ prevDisabled' = (currentPage' = 1)
  /\ nextDisabled' = (currentPage' = totalPages')
  /\ threw' = ~paginationAttached'
  /\ recordIds' = RecordIdsAfterRender(ctx, currentSortColumn', isAscending')
  /\ highlightCalls' = HighlightCalls(ctx, paginatedRecords', SearchQuery(searchText'))
  /\ pageButtons' = PageButtons(paginationAttached', totalPages')
  /\ activeButtons' = ActiveButtons(paginationAttached', totalPages', currentPage')

\* a bug: the search that does not go back to the first page
SearchInput_NoReset(text) ==
  /\ lifecycle = "initialized"
  /\ inputAttached
  /\ text # searchText
  /\ searchText' = text
  /\ UNCHANGED << lifecycle, initContext, hostContext, currentSortColumn, isAscending >>
  /\ RenderTable(initContext, currentPage)
  /\ lastAction' = "input"

Init ==
  /\ lifecycle = "initialized"
  /\ initContext \in InitDatasets
  /\ hostContext = NoContext
  /\ context = NoContext
  /\ searchText = <<>>
  /\ currentSortColumn = ""
  /\ isAscending = TRUE
  /\ currentPage = 1
  /\ inputAttached = TRUE
  /\ tableAttached = FALSE
  /\ paginationAttached = FALSE
  /\ prevDisabled = FALSE
  /\ nextDisabled = FALSE
  /\ totalPages = 0
  /\ sortedRecords = <<>>
  /\ filteredRecords = <<>>
  /\ paginatedRecords = <<>>
  /\ threw = FALSE
  /\ requestedPage = 1
  /\ clampedFrom = 0
  /\ recordIds = <<>>
  /\ pageButtons = <<>>
  /\ activeButtons = {}
  /\ highlightCalls = <<>>
  /\ lastAction = "init"

\* the host calls updateView with its current dataset
UpdateView(ds) ==
  /\ lifecycle = "initialized"
  /\ UNCHANGED << lifecycle, initContext, searchText, currentSortColumn, isAscending >>
  /\ hostContext' = ds
  /\ RenderTable(ds, currentPage)
  /\ lastAction' = "updateView"

\* the user edits the search input: its "input" listener
SearchInput(text) ==
  /\ lifecycle = "initialized"
  /\ inputAttached
  /\ text # searchText
  /\ searchText' = text
  /\ UNCHANGED << lifecycle, initContext, hostContext, currentSortColumn, isAscending >>
  /\ RenderTable(initContext, 1)
  /\ lastAction' = "input"

\* a bug: a new sort column that keeps the direction of the old one
SortTable_KeepsDirection(columnName) ==
  /\ lifecycle = "initialized"
  /\ tableAttached
  /\ \E i \in 1..Len(Columns(context)) : Columns(context)[i] = columnName
  /\ IF currentSortColumn = columnName
       THEN /\ isAscending' = ~isAscending
            /\ UNCHANGED currentSortColumn
       ELSE /\ currentSortColumn' = columnName
            /\ UNCHANGED isAscending
  /\ UNCHANGED << lifecycle, initContext, hostContext, searchText >>
  /\ RenderTable(context, currentPage)
  /\ lastAction' = "sortTable"

\* sortTable(context, columnName): the "click" listener of a header cell
SortTable(columnName) ==
  /\ lifecycle = "initialized"
  /\ tableAttached
  /\ \E i \in 1..Len(Columns(context)) : Columns(context)[i] = columnName
  /\ IF currentSortColumn = columnName
       THEN /\ isAscending' = ~isAscending
            /\ UNCHANGED currentSortColumn
       ELSE /\ currentSortColumn' = columnName
            /\ isAscending' = TRUE
  /\ UNCHANGED << lifecycle, initContext, hostContext, searchText >>
  /\ RenderTable(context, currentPage)
  /\ lastAction' = "sortTable"

\* the user clicks Previous; a disabled button dispatches no click
PreviousClick ==
  /\ lifecycle = "initialized"
  /\ paginationAttached
  /\ IF ~prevDisabled /\ currentPage > 1
       THEN /\ UNCHANGED << lifecycle, initContext, hostContext, searchText,
                            currentSortColumn, isAscending >>
            /\ RenderTable(context, currentPage - 1)
            /\ lastAction' = "previous"
       ELSE UNCHANGED vars

\* a bug: a listener that goes on to the next page without looking at totalPages
NextClick_NoGuard ==
  /\ lifecycle = "initialized"
  /\ paginationAttached
  /\ IF nextDisabled
       THEN UNCHANGED vars
       ELSE /\ UNCHANGED << lifecycle, initContext, hostContext, searchText,
                            currentSortColumn, isAscending >>
            /\ RenderTable(context, currentPage + 1)
            /\ lastAction' = "next"

\* the user clicks Next.  A disabled button dispatches no click; otherwise
\* the listener runs and compares with the totalPages it closed over.
NextClick ==
  /\ lifecycle = "initialized"
  /\ paginationAttached
  /\ IF nextDisabled
       THEN UNCHANGED vars
       ELSE IF currentPage < totalPages
       THEN /\ UNCHANGED << lifecycle, initContext, hostContext, searchText,
                            currentSortColumn, isAscending >>
            /\ RenderTable(context, currentPage + 1)
            /\ lastAction' = "next"
       ELSE /\ UNCHANGED controlVars
            /\ lastAction' = "next"

\* the user clicks page button i
PageClick(i) ==
  /\ lifecycle = "initialized"
  /\ paginationAttached
  /\ i \in 1..totalPages
  /\ UNCHANGED << lifecycle, initContext, hostContext, searchText, currentSortColumn, isAscending >>
  /\ RenderTable(context, i)
  /\ lastAction' = "page"

\* destroy(): this.container.innerHTML = ""
Destroy ==
  /\ lifecycle = "initialized"
  /\ lifecycle' = "destroyed"
  /\ inputAttached' = FALSE
  /\ tableAttached' = FALSE
  /\ paginationAttached' = FALSE
  /\ pageButtons' = <<>>
  /\ activeButtons' = {}
  /\ lastAction' = "destroy"
  /\ UNCHANGED << initContext, hostContext, searchText, currentSortColumn, isAscending,
                  currentPage, prevDisabled, nextDisabled, context, totalPages,
                  sortedRecords, filteredRecords, paginatedRecords, threw,
                  requestedPage, clampedFrom, recordIds, highlightCalls >>

Next ==
  \/ \E ds \in Datasets : UpdateView(ds)
  \/ \E text \in Texts : SearchInput(text)
  \/ \E columnName \in ColumnNames : SortTable(columnName)
  \/ PreviousClick
  \/ NextClick
  \/ \E i \in 1..MaxPage : PageClick(i)
  \/ Destroy

Spec == Init /\ [][Next]_vars

\* The same control started from any positive stored page: the render as a
\* function of this.currentPage.
InitView ==
  /\ lifecycle = "initialized"
  /\ initContext \in InitDatasets
  /\ hostContext = NoContext
  /\ context = NoContext
  /\ searchText = <<>>
  /\ currentSortColumn = ""
  /\ isAscending = TRUE
  /\ currentPage \in 1..MaxPage
  /\ inputAttached = TRUE
  /\ tableAttached = FALSE
  /\ paginationAttached = FALSE
  /\ prevDisabled = FALSE
  /\ nextDisabled = FALSE
  /\ totalPages = 0
  /\ sortedRecords = <<>>
  /\ filteredRecords = <<>>
  /\ paginatedRecords = <<>>
  /\ threw = FALSE
  /\ requestedPage = currentPage
  /\ clampedFrom = 0
  /\ recordIds = <<>>
  /\ pageButtons = <<>>
  /\ activeButtons = {}
  /\ highlightCalls = <<>>
  /\ lastAction = "init"

SpecView == InitView /\ [][Next]_vars

(***************************************************************************)
(* Properties.                                                             *)
(***************************************************************************)
Rendered == context # NoContext

RowIds(ds) == {SortedRecordIds(ds)[i] : i \in 1..Len(SortedRecordIds(ds))}

Range(s) == {s[i] : i \in 1..Len(s)}

\* the least k with k * recordsPerPage >= n
Ceiling(n) == CHOOSE k \in 0..n : k * recordsPerPage >= n /\ (k = 0 \/ (k - 1) * recordsPerPage < n)

\* q occurs in v without regard to case
ContainsIgnoringCase(v, q) ==
  \E i \in 0..(Len(v) - Len(q)) :
    \A j \in 1..Len(q) : LowerChar(v[i + j]) = LowerChar(q[j])

\* C1: after every render the stored page is at least 1 and at most
\* max(totalPages, 1), totalPages being the value that render computed.
C1_PageInRange ==
  Rendered => /\ 1 <= currentPage
              /\ currentPage <= Max(totalPages, 1)
              /\ currentPage # 0

\* a render that began beyond the last page of a recordset with no match
C1_Witness ==
  /\ Rendered
  /\ requestedPage > 1
  /\ totalPages = 0
  /\ currentPage = 1

\* C2: a row is in the filtered result exactly when its fullname value or the
\* value of some column contains the query without regard to case, an absent
\* value counting as the empty string; the empty query keeps every row and a
\* row with no value at all passes no other query.
C2_FilterCorrect ==
  Rendered =>
    LET q == SearchQuery(searchText)
        Text(r, col) == OrEmpty(GetFormattedValue(context, r, col))
        AllAbsent(r) ==
          /\ GetFormattedValue(context, r, "fullname") = Null
          /\ \A i \in 1..Len(Columns(context)) :
               GetFormattedValue(context, r, Columns(context)[i]) = Null
    IN  /\ \A r \in RowIds(context) :
             r \in Range(filteredRecords) <=>
               \/ ContainsIgnoringCase(Text(r, "fullname"), q)
               \/ \E i \in 1..Len(Columns(context)) :
                    ContainsIgnoringCase(Text(r, Columns(context)[i]), q)
        /\ q = <<>> => Range(filteredRecords) = RowIds(context)
        /\ q # <<>> => \A r \in RowIds(context) :
                         AllAbsent(r) => r \notin Range(filteredRecords)

\* a query typed with a capital and blanks around it that keeps a row for
\* its e-mail alone and drops a row that has values
C2_Witness ==
  /\ Rendered
  /\ searchText # SearchQuery(searchText)
  /\ SearchQuery(searchText) # <<>>
  /\ \E r \in Range(filteredRecords) :
       ~ContainsIgnoringCase(OrEmpty(GetFormattedValue(context, r, "fullname")),
                             SearchQuery(searchText))
  /\ \E r \in RowIds(context) :
       /\ r \notin Range(filteredRecords)
       /\ GetFormattedValue(context, r, "fullname") # Null

\* C3: with n filtered rows, totalPages is n / 13 rounded up and the page
\* shows min(13, n - (page - 1) * 13) rows, none when n = 0.
C3_PageCounts ==
  Rendered =>
    LET n == Len(filteredRecords)
    IN  /\ totalPages = Ceiling(n)
        /\ Len(paginatedRecords) =
             IF n = 0 THEN 0 ELSE Min(13, n - (currentPage - 1) * 13)

\* a last page that is not full, and a full page before it
C3_Witness ==
  /\ Rendered
  /\ totalPages = 3
  /\ currentPage = 3
  /\ Len(filteredRecords) = 30
  /\ Len(paginatedRecords) = 4

\* C4: the page shows the elements (page - 1) * 13 up to page * 13 (not
\* included) of the filtered and sorted sequence, in its order; 30 rows with
\* no query and page 5 requested show page 3, the last 4 rows.
C4_PageIsSlice ==
  Rendered =>
    LET first == (currentPage - 1) * 13
        last  == Min(currentPage * 13, Len(filteredRecords))
    IN  /\ Len(paginatedRecords) = Max(last - first, 0)
        /\ \A k \in 1..Len(paginatedRecords) :
             paginatedRecords[k] = filteredRecords[first + k]
        /\ (/\ Len(SortedRecordIds(context)) = 30
            /\ SearchQuery(searchText) = <<>>
            /\ requestedPage = 5)
           => /\ currentPage = 3
              /\ paginatedRecords = SubSeq(filteredRecords, 27, 30)

\* 30 rows, no query, page 5 requested
C4_Witness ==
  /\ Rendered
  /\ Len(SortedRecordIds(context)) = 30
  /\ SearchQuery(searchText) = <<>>
  /\ requestedPage = 5
  /\ Len(paginatedRecords) = 4

SortKey(ds, r, col) == OrEmpty(GetFormattedValue(ds, r, col))

\* the place of row r in the host's row order
Position(ds, r) == CHOOSE k \in 1..Len(SortedRecordIds(ds)) : SortedRecordIds(ds)[k] = r

Reverse(s) == [i \in 1..Len(s) |-> s[Len(s) + 1 - i]]

DistinctKeys(ds, col) ==
  \A r1, r2 \in RowIds(ds) : r1 # r2 => SortKey(ds, r1, col) # SortKey(ds, r2, col)

\* C6: with a sort column set, the sequence before filtering is a permutation
\* of the row ids ordered by that column's value (absent as ""), not
\* decreasing when ascending and not increasing when descending; with none
\* set it is the host's row order.
C6_SortedOrder ==
  Rendered =>
    /\ Len(sortedRecords) = Len(SortedRecordIds(context))
    /\ Range(sortedRecords) = RowIds(context)
    /\ currentSortColumn = "" => sortedRecords = SortedRecordIds(context)
    /\ currentSortColumn # "" =>
         \A i \in 1..(Len(sortedRecords) - 1) :
           LET c == LocaleCompare(SortKey(context, sortedRecords[i], currentSortColumn),
                                  SortKey(context, sortedRecords[i + 1], currentSortColumn))
           IN  IF isAscending THEN c <= 0 ELSE c >= 0

\* a descending sort that changed the host's order of a page of rows or more
C6_Witness ==
  /\ Rendered
  /\ currentSortColumn # ""
  /\ ~isAscending
  /\ Len(sortedRecords) > recordsPerPage
  /\ sortedRecords # SortedRecordIds(context)
  /\ sortedRecords # Reverse(SortedRecordIds(context))

\* C7: in either direction, two rows whose sort values compare equal keep the
\* order they have in the host's row order.
C7_SortStable ==
  (Rendered /\ currentSortColumn # "") =>
    \A i, j \in 1..Len(sortedRecords) :
      (/\ i < j
       /\ LocaleCompare(SortKey(context, sortedRecords[i], currentSortColumn),
                        SortKey(context, sortedRecords[j], currentSortColumn)) = 0)
      => Position(context, sortedRecords[i]) < Position(context, sortedRecords[j])

\* a descending sort over rows of which some compare equal, one of them with
\* an absent value and one with an empty one
C7_Witness ==
  /\ Rendered
  /\ currentSortColumn # ""
  /\ ~isAscending
  /\ sortedRecords # SortedRecordIds(context)
  /\ \E i, j \in 1..Len(sortedRecords) :
       /\ i < j
       /\ GetFormattedValue(context, sortedRecords[i], currentSortColumn) = Null
       /\ GetFormattedValue(context, sortedRecords[j], currentSortColumn) = <<>>

\* C8: over rows whose values in column C are pairwise different, a click on
\* the header of C while sorted by C ascending gives the reverse of the
\* ascending order, before and after filtering.
C8_DescendingIsReverse ==
  [][(/\ lastAction' = "sortTable"
      /\ currentSortColumn # ""
      /\ currentSortColumn' = currentSortColumn
      /\ isAscending
      /\ DistinctKeys(context, currentSortColumn))
     => /\ ~isAscending'
        /\ sortedRecords' = Reverse(sortedRecords)
        /\ filteredRecords' = Reverse(filteredRecords)]_vars

\* the second click on the header of a column of different values
C8_Witness ==
  /\ lastAction = "sortTable"
  /\ currentSortColumn # ""
  /\ ~isAscending
  /\ DistinctKeys(context, currentSortColumn)
  /\ Len(sortedRecords) > recordsPerPage
  /\ sortedRecords # SortedRecordIds(context)

\* C9: a change of the query goes back to the first page: the render it
\* starts begins with page 1 and stores page 1.
C9_SearchResetsPage ==
  [][searchText' # searchText =>
       /\ lastAction' = "input"
       /\ requestedPage' = 1
       /\ currentPage' = 1]_vars

\* a query typed, with several pages of matches
C9_Witness ==
  /\ lastAction = "input"
  /\ searchText # <<>>
  /\ totalPages >= 2
  /\ currentPage = 1

\* C10: a render that is not started by a page action begins with the stored
\* page and stores its clamped value: the stored page when that is still a
\* page, otherwise the last page (1 when there is none).  A page clamped
\* once is therefore not raised again when the filtered set grows.
C10_ClampPersists ==
  [][(lastAction' \in {"updateView", "sortTable"} /\ Rendered')
     => /\ requestedPage' = currentPage
        /\ currentPage' = IF currentPage > totalPages' THEN Max(totalPages', 1)
                          ELSE currentPage]_vars

\* the filtered set has grown to hold the page asked for before the clamp,
\* and the page is still the clamped one
C10_Witness ==
  /\ Rendered
  /\ lastAction = "updateView"
  /\ clampedFrom > currentPage
  /\ totalPages >= clampedFrom
  /\ requestedPage = currentPage

\* C11: a click on the header of column C reverses the direction when C is
\* the sort column already, and otherwise makes C the sort column, ascending;
\* the first click, with no sort column yet, is of the second kind.
C11_HeaderClick ==
  [][lastAction' = "sortTable" =>
       \E i \in 1..Len(Columns(context)) :
         LET C == Columns(context)[i]
         IN  /\ currentSortColumn' = C
             /\ IF currentSortColumn = C
                  THEN isAscending' = ~isAscending
                  ELSE isAscending' = TRUE]_vars

\* a click that made e-mail the sort column, ascending, over more than a page
\* of rows
C11_Witness ==
  /\ lastAction = "sortTable"
  /\ currentSortColumn = "email"
  /\ isAscending
  /\ sortedRecords # SortedRecordIds(context)
  /\ Len(sortedRecords) > recordsPerPage

\* C12: when the Next listener runs, the page becomes page + 1 if that is
\* still a page, which is min(page + 1, totalPages); on the last page, and
\* when there is no page at all (totalPages = 0), nothing changes.
C12_NextClick ==
  [][lastAction' = "next" =>
       IF currentPage < totalPages
         THEN /\ requestedPage' = currentPage + 1
              /\ currentPage' = Min(currentPage + 1, totalPages)
         ELSE /\ currentPage' = currentPage
              /\ UNCHANGED controlVars]_vars

\* Next clicked with no match: the button is enabled and the click does nothing
C12_Witness ==
  /\ lastAction = "next"
  /\ paginationAttached
  /\ ~nextDisabled
  /\ totalPages = 0
  /\ currentPage = 1

\* the query occurs at the head of v, letter for letter without regard to case
LiteralMatchesAt(v, q) ==
  /\ Len(v) >= Len(q)
  /\ \A j \in 1..Len(q) : LowerChar(v[j]) = LowerChar(q[j])

\* v with the occurrences of q marked that a scan from left to right finds,
\* each search starting where the last occurrence ended
RECURSIVE LiteralHighlight(_, _)
LiteralHighlight(v, q) ==
  IF v = <<>> THEN <<>>
  ELSE IF LiteralMatchesAt(v, q)
       THEN <<SpanOpen>> \o SubSeq(v, 1, Len(q)) \o <<SpanClose>>
              \o LiteralHighlight(SubSeq(v, Len(q) + 1, Len(v)), q)
       ELSE <<Head(v)>> \o LiteralHighlight(Tail(v), q)

IsMarker(t) == t \in {SpanOpen, SpanClose}

StripMarkers(html) == LET Keep(t) == ~IsMarker(t) IN SelectSeq(html, Keep)

\* every marked region of html is the query, without regard to case
MarkedRegionsAreQuery(html, q) ==
  \A i \in 1..Len(html) :
    html[i] = SpanOpen =>
      /\ i + Len(q) + 1 <= Len(html)
      /\ html[i + Len(q) + 1] = SpanClose
      /\ \A j \in 1..Len(q) : LowerChar(html[i + j]) = LowerChar(q[j])

\* C13: highlighting takes every character of the query for itself: whatever
\* the query, each call of highlightText returns, and what it marks are
\* occurrences of the query, without regard to case.
C13_QueryIsLiteral ==
  \A k \in 1..Len(highlightCalls) :
    /\ highlightCalls[k].html # Thrown
    /\ MarkedRegionsAreQuery(highlightCalls[k].html, SearchQuery(searchText))

\* C14: with the markers removed, the result of highlightText is the value,
\* and a value in which the query does not occur comes back as it is.
C14_RoundTrip ==
  \A k \in 1..Len(highlightCalls) :
    LET value == highlightCalls[k].value
        html  == highlightCalls[k].html
    IN  /\ StripMarkers(html) = value
        /\ ~ContainsIgnoringCase(value, SearchQuery(searchText)) => html = value

\* C20: for a query that is not empty highlightText marks the occurrences of
\* the query that a scan from left to right finds, each search starting
\* after the last occurrence, and nothing else; for the empty query it
\* returns the value.
C20_LeftmostScan ==
  \A k \in 1..Len(highlightCalls) :
    LET value == highlightCalls[k].value
        q     == SearchQuery(searchText)
    IN  highlightCalls[k].html = IF q = <<>> THEN value ELSE LiteralHighlight(value, q)

\* C15: a render that has begun ends without an error, with the table and
\* the pagination controls in the container, whatever the dataset, the
\* search text and the stored page.
C15_NoRenderFails ==
  (Rendered /\ lifecycle = "initialized") =>
    (~threw /\ tableAttached /\ paginationAttached)

AnyColumnContains(ds, r, q) ==
  \E c \in Range(Columns(ds)) :
    /\ GetFormattedValue(ds, r, c) # Null
    /\ ContainsIgnoringCase(GetFormattedValue(ds, r, c), q)

\* the rows of s, in order, for which some column contains q
AnyColumnRows(ds, s, q) ==
  LET Keep(r) == AnyColumnContains(ds, r, q) IN SelectSeq(s, Keep)

\* C17 as stated: the fullname branch adds nothing: the rows that pass the
\* filter are the rows that pass the check over the columns alone.
C17_FullNameRedundant ==
  Rendered =>
    filteredRecords = AnyColumnRows(context, sortedRecords, SearchQuery(searchText))

\* C17 amended: the fullname branch adds nothing for a query that is not
\* empty; for the empty query the filter passes every row, and the rows
\* the fullname branch adds are those with no value in any column.
C17_RedundantUnlessEmptyQuery ==
  Rendered =>
    LET q == SearchQuery(searchText)
    IN  /\ q # <<>> => filteredRecords = AnyColumnRows(context, sortedRecords, q)
        /\ q = <<>> =>
             /\ filteredRecords = sortedRecords
             /\ \A r \in Range(sortedRecords) :
                  AnyColumnContains(context, r, q) <=>
                    \E c \in Range(Columns(context)) :
                      GetFormattedValue(context, r, c) # Null

\* the empty query over a dataset with a row that has no value at all: the
\* row is displayed, though no column contains the query
C17_Witness ==
  /\ Rendered
  /\ SearchQuery(searchText) = <<>>
  /\ \E r \in Range(filteredRecords) : ~AnyColumnContains(context, r, <<>>)
  /\ \E r \in Range(filteredRecords) : AnyColumnContains(context, r, <<>>)

\* C18: after a render the pagination controls hold one page button for
\* each page 1..totalPages, in order, and the button of the current page,
\* and no other, is marked active.
C18_PageButtons ==
  (Rendered /\ lifecycle = "initialized") =>
    /\ pageButtons = [i \in 1..totalPages |-> i]
    /\ activeButtons = {i \in 1..totalPages : i = currentPage}

\* C19: in the pagination controls of a render, Previous is disabled exactly
\* on page 1 and Next exactly on the last page; with no page at all (page 1
\* of 0) both are disabled.
C19_DisabledAtBounds ==
  (Rendered /\ paginationAttached) =>
    /\ prevDisabled <=> currentPage = 1
    /\ nextDisabled <=> currentPage = Max(totalPages, 1)


\* C21: while the control lives, the search input that init made is in the
\* container, after init and after every updateView, so that the user can
\* change the query after a render.
C21_InputAttached ==
  lifecycle = "initialized" => inputAttached

\* the operations the user starts
UserActions == {"input", "sortTable", "previous", "next", "page"}

=============================================================================
